---- MODULE Spec2Model ----
(***************************************************************************)
(* A model of pypower/psse2case.py: the conversion of a PSS/E raw file     *)
(* into a PYPOWER case.  A file is a sequence of rows as csv.reader yields *)
(* them; a row is a sequence of fields; a field is a text, written as a    *)
(* sequence of one-character strings so that strip, split, int and bool    *)
(* are computed as Python computes them.  Python's 0-based index k is the  *)
(* model's index k + 1.                                                    *)
(***************************************************************************)
EXTENDS Integers, Sequences, FiniteSets, TLC

VARIABLES
    pc,         \* position of the program
    casefile,   \* kind of psse2case's first argument: "dict", "path", "stream"
    openable,   \* whether open(casefile, "rb") succeeds
    version,    \* psse2case's version argument (None when absent)
    delimiter,  \* psse2case's delimiter argument ("None" when absent)
    stream,     \* the rows of the file
    cursor,     \* number of rows the csv reader has yielded
    fileSep,    \* the separator the file is written with: "," or " "
    fd,         \* the file object psse2case opens: "None", "open", "closed"
    sep,        \* _parse_file's sep
    rev,        \* _parse_file's rev / the readers' version parameter
    baseMVA,    \* _parse_header's result
    bus,        \* the bus table (busdata)
    busmap,     \* the bus index table
    gen,        \* the generator table
    branch,     \* the branch table
    err,        \* the exception raised, "none" when there is none
    ppc,        \* what psse2case returned
    calls,      \* the section readers called so far, in order
    log         \* the logger's warning and error records, in order

vars == <<pc, casefile, openable, version, delimiter, stream, cursor, fileSep,
          fd, sep,
          rev, baseMVA, bus, busmap, gen, branch, err, ppc, calls, log>>

\* Python's None where the model needs it among integers.
None == -1

DEFAULT_VERSION == 30
SUPPORTED_VERSIONS == {29, 30, 31, 32}

-----------------------------------------------------------------------------
(* Texts *)

Whitespace == {" ", "\t"}
Quote == {"'"}

RECURSIVE lstrip(_, _)
lstrip(s, chars) ==
    IF s # <<>> /\ Head(s) \in chars THEN lstrip(Tail(s), chars) ELSE s

RECURSIVE rstrip(_, _)
rstrip(s, chars) ==
    IF s # <<>> /\ s[Len(s)] \in chars
    THEN rstrip(SubSeq(s, 1, Len(s) - 1), chars) ELSE s

\* str.strip(chars)
strip(s, chars) == rstrip(lstrip(s, chars), chars)

\* str.split(ch)[0]: the text before the first ch
RECURSIVE split0(_, _)
split0(s, ch) ==
    IF s = <<>> \/ Head(s) = ch THEN <<>> ELSE <<Head(s)>> \o split0(Tail(s), ch)

\* "ch in s"
Contains(s, ch) == \E k \in 1..Len(s) : s[k] = ch

Digit(c) ==
    CASE c = "0" -> 0 [] c = "1" -> 1 [] c = "2" -> 2 [] c = "3" -> 3
      [] c = "4" -> 4 [] c = "5" -> 5 [] c = "6" -> 6 [] c = "7" -> 7
      [] c = "8" -> 8 [] c = "9" -> 9 [] OTHER -> None

RECURSIVE DigitsValue(_, _)
DigitsValue(s, acc) ==
    IF s = <<>> THEN acc ELSE DigitsValue(Tail(s), 10 * acc + Digit(Head(s)))

\* int(s) of a text of decimal digits with blanks around it.  None stands
\* for the ValueError of any other text (the model's files hold no signed
\* numbers).
int(s) ==
    LET t == strip(s, Whitespace) IN
    IF t # <<>> /\ \A k \in 1..Len(t) : Digit(t[k]) # None
    THEN DigitsValue(t, 0) ELSE None

\* float(s); the model's numeric fields are whole numbers.
float(s) == int(s)

\* bool(s) of a text: true of every text but the empty one.
bool(s) == s # <<>>

\* The test that ends every section: row[0].split("/")[0].strip() == "0"
IsTerminator(row) == strip(split0(row[1], "/"), Whitespace) = <<"0">>

\* A dict with key k set to v.
Put(m, k, v) == [x \in (DOMAIN m) \cup {k} |-> IF x = k THEN v ELSE m[x]]

\* numpy table t with t[r, c] = v (r, c counted from 0).
SetCell(t, r, c, v) == [t EXCEPT ![r + 1][c + 1] = v]

-----------------------------------------------------------------------------
(* Section readers.  Each takes the rows of the file and the number of     *)
(* rows already read, and returns what the function returns together with  *)
(* the new cursor, the records it logged and the exception it raised.      *)

\* Some field of row at one of the (0-based) columns cols is no number.
NotNumeric(row, cols) == \E k \in cols : float(row[k + 1]) = None

\* The exception a data row raises before any of its fields is stored:
\* IndexError when it is shorter than the last column read, ValueError when
\* a converted field is no number.
RowError(row, last, cols) ==
    IF Len(row) <= last THEN "IndexError"
    ELSE IF NotNumeric(row, cols) THEN "ValueError"
    ELSE "none"

\* _parse_header without its assert.
_parse_header_unchecked(rows, cur) ==
    IF Len(rows) - cur < 3
    THEN [err |-> "StopIteration", cursor |-> Len(rows), baseMVA |-> None]
    ELSE LET h0 == rows[cur + 1] IN
         IF RowError(h0, 1, {1}) # "none"
         THEN [err |-> RowError(h0, 1, {1}), cursor |-> cur + 3,
               baseMVA |-> None]
         ELSE [err |-> "none", cursor |-> cur + 3, baseMVA |-> float(h0[2])]

_parse_header(rows, cur) ==
    IF Len(rows) - cur < 3
    THEN [err |-> "StopIteration", cursor |-> Len(rows), baseMVA |-> None]
    ELSE LET h0 == rows[cur + 1] IN
         IF h0 = <<>>
         THEN [err |-> "IndexError", cursor |-> cur + 3, baseMVA |-> None]
         ELSE IF ~ (h0[1] = <<"0">> \/ h0[1] = <<"1">>)
         THEN [err |-> "AssertionError", cursor |-> cur + 3, baseMVA |-> None]
         ELSE IF RowError(h0, 1, {1}) # "none"
         THEN [err |-> RowError(h0, 1, {1}), cursor |-> cur + 3,
               baseMVA |-> None]
         ELSE [err |-> "none", cursor |-> cur + 3, baseMVA |-> float(h0[2])]

Vmax == "1.1"
Vmin == "0.9"

\* The bus record of one data row; columns
\* bus_i type Pd Qd Gs Bs area Vm Va baseKV zone Vmax Vmin
BusRecord(busdata, ver) ==
    IF ver \in {29, 30}
    THEN << int(busdata[1]), float(busdata[4]), 0, 0,
            float(busdata[5]), float(busdata[6]), int(busdata[7]),
            float(busdata[9]), float(busdata[10]), float(busdata[3]),
            float(busdata[8]), Vmax, Vmin >>
    ELSE IF ver \in {31, 32}
    THEN << int(busdata[1]), float(busdata[4]), 0, 0, 0, 0,
            int(busdata[5]), float(busdata[8]), float(busdata[9]),
            float(busdata[3]), float(busdata[6]), Vmax, Vmin >>
    ELSE << int(busdata[1]), float(busdata[4]), 0, 0, 0, 0, 0, 0, 0,
            float(busdata[3]), 0, Vmax, Vmin >>

\* The columns of a bus row that _parse_buses converts.
BusColumns(ver) ==
    IF ver \in {29, 30} THEN {0} \cup (2..9)
    ELSE IF ver \in {31, 32} THEN {0, 2, 3, 4, 5, 7, 8}
    ELSE {0, 2, 3}

BusLastColumn(ver) ==
    IF ver \in {29, 30} THEN 9 ELSE IF ver \in {31, 32} THEN 8 ELSE 3

\* BusKeys registering the name with its quotes on.
BusKeys_quoted(map, busdata, c) ==
    Put(Put(map, busdata[1], c), busdata[2], c)

\* Both keys of a bus row, the id first and the stripped name second.
BusKeys(map, busdata, c) ==
    Put(Put(map, busdata[1], c), strip(busdata[2], Quote), c)

RECURSIVE BusLoop(_, _, _, _, _)
BusLoop(rows, cur, ver, buses, map) ==
    IF cur >= Len(rows)
    THEN [err |-> "StopIteration", cursor |-> cur, bus |-> buses, busmap |-> map]
    ELSE LET busdata == rows[cur + 1] IN
         IF IsTerminator(busdata)
         THEN [err |-> "none", cursor |-> cur + 1, bus |-> buses, busmap |-> map]
         ELSE IF RowError(busdata, BusLastColumn(ver), BusColumns(ver)) # "none"
         THEN [err |-> RowError(busdata, BusLastColumn(ver), BusColumns(ver)),
               cursor |-> cur + 1, bus |-> buses, busmap |-> map]
         ELSE BusLoop(rows, cur + 1, ver,
                      Append(buses, BusRecord(busdata, ver)),
                      BusKeys(map, busdata, Len(buses)))

_parse_buses(rows, cur, ver) == BusLoop(rows, cur, ver, <<>>, <<>>)

\* _busidx's result, and the error record it logs for an unknown bus.
_busidx(i, map) ==
    LET k == strip(i, Quote) IN IF k \in DOMAIN map THEN map[k] ELSE None

BusidxLog(i, map) ==
    IF _busidx(i, map) = None
    THEN << <<"error", "bus not found", strip(i, Quote)>> >> ELSE <<>>

\* The 'not scaled' test of _parse_loads.
NotScaled(scale) == (scale # 0) \/ (scale # 1)

\* The warnings of one in-service load row at bus idx.
LoadWarnings(loaddata, idx, ver) ==
    (IF float(loaddata[8]) # 0 \/ float(loaddata[9]) # 0
     THEN << <<"warning", "constant current", loaddata[1], idx>> >> ELSE <<>>)
    \o
    (IF float(loaddata[10]) # 0 \/ float(loaddata[11]) # 0
     THEN << <<"warning", "constant admittance", loaddata[1], idx>> >> ELSE <<>>)
    \o
    (IF ver = 32 /\ NotScaled(float(loaddata[13]))
     THEN << <<"warning", "not scaled", loaddata[1], idx, float(loaddata[13])>> >>
     ELSE <<>>)

LoadLastColumn(ver) == IF ver = 32 THEN 12 ELSE 10

LoadColumns(ver) == (5..10) \cup (IF ver = 32 THEN {12} ELSE {})

RECURSIVE LoadLoop(_, _, _, _, _, _)
LoadLoop(rows, cur, buses, map, ver, lg) ==
    IF cur >= Len(rows)
    THEN [err |-> "StopIteration", cursor |-> cur, bus |-> buses, log |-> lg]
    ELSE LET loaddata == rows[cur + 1] IN
         IF IsTerminator(loaddata)
         THEN [err |-> "none", cursor |-> cur + 1, bus |-> buses, log |-> lg]
         ELSE IF Len(loaddata) <= 2
         THEN [err |-> "IndexError", cursor |-> cur + 1, bus |-> buses, log |-> lg]
         ELSE LET status == bool(loaddata[3])
                  i      == loaddata[1]
                  idx    == _busidx(i, map)
                  lg1    == lg \o BusidxLog(i, map)
              IN  IF (status = TRUE) /\ (idx # None)
                  THEN IF RowError(loaddata, LoadLastColumn(ver), LoadColumns(ver)) # "none"
                       THEN [err |-> RowError(loaddata, LoadLastColumn(ver),
                                              LoadColumns(ver)),
                             cursor |-> cur + 1, bus |-> buses, log |-> lg1]
                       ELSE LoadLoop(rows, cur + 1,
                                SetCell(SetCell(buses, idx, 2, float(loaddata[6])),
                                        idx, 3, float(loaddata[7])),
                                map, ver, lg1 \o LoadWarnings(loaddata, idx, ver))
                  ELSE LoadLoop(rows, cur + 1, buses, map, ver, lg1)

_parse_loads(rows, cur, buses, map, ver) == LoadLoop(rows, cur, buses, map, ver, <<>>)

\* The generator record of one row; columns
\* bus Pg Qg Qmax Qmin Vg mBase status Pmax Pmin and eleven zeros.
\* Column 0 (bus) is never assigned: it keeps the zero of zeros((1, gencol)).
GenRecord(gendata) ==
    << 0, float(gendata[3]), float(gendata[4]), float(gendata[5]),
       float(gendata[6]), float(gendata[7]), float(gendata[9]),
       float(gendata[15]), float(gendata[17]), float(gendata[18]) >>
    \o [k \in 1..11 |-> 0]

GenColumns == {2, 3, 4, 5, 6, 8, 14, 16, 17}

RECURSIVE GenLoop(_, _, _, _, _)
GenLoop(rows, cur, map, generators, lg) ==
    IF cur >= Len(rows)
    THEN [err |-> "StopIteration", cursor |-> cur, gen |-> generators, log |-> lg]
    ELSE LET gendata == rows[cur + 1]
             idx     == _busidx(gendata[1], map)
             lg1     == lg \o BusidxLog(gendata[1], map)
         IN
         IF IsTerminator(gendata)
         THEN [err |-> "none", cursor |-> cur + 1, gen |-> generators, log |-> lg]
         ELSE IF idx # None
         THEN IF RowError(gendata, 17, GenColumns) # "none"
              THEN [err |-> RowError(gendata, 17, GenColumns), cursor |-> cur + 1,
                    gen |-> generators, log |-> lg1]
              ELSE GenLoop(rows, cur + 1, map,
                           Append(generators, GenRecord(gendata)), lg1)
         ELSE GenLoop(rows, cur + 1, map, generators, lg1)

_parse_generators(rows, cur, map) == GenLoop(rows, cur, map, <<>>, <<>>)

\* The branch record of one row whose ends are at bus rows fbus and tbus;
\* columns fbus tbus r x b rateA rateB rateC ratio angle status angmin angmax
BranchRecord(brchdata, buses, fbus, tbus) ==
    << buses[fbus + 1][1], buses[tbus + 1][2],
       float(brchdata[4]), float(brchdata[5]), float(brchdata[6]),
       float(brchdata[7]), float(brchdata[8]), float(brchdata[9]),
       0, 0, float(brchdata[14]), -360, 360 >>

BranchColumns == (3..8) \cup {13}

RECURSIVE BranchLoop(_, _, _, _, _, _)
BranchLoop(rows, cur, buses, map, branches, lg) ==
    IF cur >= Len(rows)
    THEN [err |-> "StopIteration", cursor |-> cur, branch |-> branches, log |-> lg]
    ELSE LET brchdata == rows[cur + 1] IN
         IF IsTerminator(brchdata)
         THEN [err |-> "none", cursor |-> cur + 1, branch |-> branches, log |-> lg]
         ELSE IF Len(brchdata) <= 1
         THEN [err |-> "IndexError", cursor |-> cur + 1, branch |-> branches,
               log |-> lg]
         ELSE LET fbus == _busidx(brchdata[1], map)
                  tbus == _busidx(brchdata[2], map)
                  lg1  == lg \o BusidxLog(brchdata[1], map)
                             \o BusidxLog(brchdata[2], map)
              IN  IF (fbus # None) /\ (tbus # None)
                  THEN IF RowError(brchdata, 13, BranchColumns) # "none"
                       THEN [err |-> RowError(brchdata, 13, BranchColumns),
                             cursor |-> cur + 1, branch |-> branches, log |-> lg1]
                       ELSE BranchLoop(rows, cur + 1, buses, map,
                                Append(branches,
                                       BranchRecord(brchdata, buses, fbus, tbus)),
                                lg1)
                  ELSE BranchLoop(rows, cur + 1, buses, map, branches, lg1)

_parse_nontransformer_branches(rows, cur, buses, map) ==
    BranchLoop(rows, cur, buses, map, <<>>, <<>>)

\* _delimiter: "," when the first line, up to its comment, holds a comma.
\* The first line is given by the separator the file is written with.
_delimiter(fs) == IF fs = "," THEN "," ELSE " "

\* _version without the fall back to the default revision.
_version_as_read(rows) ==
    IF rows = <<>> THEN [err |-> "StopIteration", version |-> None]
    ELSE LET h0 == rows[1] IN
         IF Len(h0) < 3 THEN [err |-> "none", version |-> DEFAULT_VERSION]
         ELSE LET v == IF Contains(h0[3], "/")
                       THEN int(strip(split0(h0[3], "/"), Whitespace))
                       ELSE int(h0[3])
              IN  IF v = None THEN [err |-> "ValueError", version |-> None]
                  ELSE [err |-> "none", version |-> v]

\* _version: the revision read from the first row, None for a ValueError.
_version(rows) ==
    IF rows = <<>> THEN [err |-> "StopIteration", version |-> None]
    ELSE LET h0 == rows[1] IN
         IF Len(h0) < 3 THEN [err |-> "none", version |-> DEFAULT_VERSION]
         ELSE LET v == IF Contains(h0[3], "/")
                       THEN int(strip(split0(h0[3], "/"), Whitespace))
                       ELSE int(h0[3])
              IN  IF v = None THEN [err |-> "ValueError", version |-> None]
                  ELSE IF v \notin SUPPORTED_VERSIONS
                  THEN [err |-> "none", version |-> DEFAULT_VERSION]
                  ELSE [err |-> "none", version |-> v]

-----------------------------------------------------------------------------
(* Files.  The rows below are the inputs the model draws from.             *)

T0 == <<"0">>
T1 == <<"1">>
T2 == <<"2">>
T3 == <<"3">>
T5 == <<"5">>
T10 == <<"1", "0">>
T100 == <<"1", "0", "0">>
T250 == <<"2", "5", "0">>
T345 == <<"3", "4", "5">>
NameA == <<"'", "A", "'">>
NameB == <<"'", "B", "'">>
Name2 == <<"'", "2", "'">>

\* The three layouts of the supported revisions: 29-30, 31 and 32.
Layout(r) == IF r = 32 THEN "v32" ELSE IF r = 31 THEN "v31" ELSE "v30"

\* v29-30: I, 'NAME', BASKV, IDE, GL, BL, AREA, ZONE, VM, VA, OWNER
\* v31-32: I, 'NAME', BASKV, IDE, AREA, ZONE, OWNER, VM, VA
BusRow(i, name, layout) ==
    IF layout = "v30"
    THEN <<i, name, T345, T1, T0, T0, T2, T3, T1, T0, T1>>
    ELSE <<i, name, T345, T1, T2, T3, T1, T1, T0>>

\* I, ID, STATUS, AREA, ZONE, PL, QL, IP, IQ, YP, YQ, OWNER [, SCALE]
LoadRow(i, status, scale, layout) ==
    <<i, T1, status, T2, T3, T10, T5, T0, T0, T0, T0, T1>>
    \o (IF layout = "v32" THEN <<scale>> ELSE <<>>)

\* I,ID,PG,QG,QT,QB,VS,IREG,MBASE,ZR,ZX,RT,XT,GTAP,STAT,RMPCT,PT,PB,O1,F1,...
GenRow(i, stat) ==
    <<i, T1, T10, T5, T250, T0, T1, T0, T100, T0, T1, T0, T0, T1,
      stat, T100, T250, T10, T1, T1>>

\* I,J,CKT,R,X,B,RATEA,RATEB,RATEC,GI,BI,GJ,BJ,ST,[MET,]LEN,O1,F1,...
BranchRow(i, j, layout) ==
    <<i, j, T1, T0, T5, T0, T250, T250, T250, T0, T0, T0, T0, T1>>
    \o (IF layout = "v30" THEN <<T0, T1, T1>> ELSE <<T1, T0, T1, T1>>)

\* "0 / END OF ... DATA" as csv.reader splits it on a comma and on blanks.
Terminator(fs) ==
    IF fs = "," THEN << <<"0", " ", "/", " ", "E", "N", "D">> >>
    ELSE <<T0, <<"/">>, <<"E", "N", "D">>>>

\* All sequences over S of length at most n.
RECURSIVE SeqsUpTo(_, _)
SeqsUpTo(S, n) ==
    IF n = 0 THEN {<<>>}
    ELSE LET P == SeqsUpTo(S, n - 1) IN
         P \cup {Append(q, x) : q \in {q \in P : Len(q) = n - 1}, x \in S}

\* The most data rows of a section handed to a reader called on its own.
MaxBus == 2
MaxLoad == 1
MaxGen == 1
MaxBranch == 1

BusRows(layout) ==
    {BusRow(i, n, layout) : i \in {T1, T2}, n \in {NameA, NameB, Name2}}

\* Loads at bus 2 in service with each scale, out of service ("0" and the
\* empty status), at the absent bus 3, and at the bus named A.
LoadRows(layout) ==
    {LoadRow(T2, T1, sc, layout) :
        sc \in (IF layout = "v32" THEN {T0, T1, T2} ELSE {T1})}
    \cup {LoadRow(T2, T0, T1, layout), LoadRow(T2, <<>>, T1, layout),
          LoadRow(T3, T1, T1, layout), LoadRow(NameA, T1, T1, layout)}

GenRows == {GenRow(T1, T1), GenRow(T2, T1), GenRow(T2, T0), GenRow(T3, T1)}

BranchRows(layout) ==
    {BranchRow(i, j, layout) : i \in {T1, T2, T3}, j \in {T2, NameB}}

\* The first header row: IC, SBASE, REV.  revText is <<>> for a row that
\* stops after SBASE.
Header(ic, revText) ==
    << <<ic, T100>> \o (IF revText = <<>> THEN <<>> ELSE <<revText>>),
       <<<<"t", "i", "t", "l", "e">>>>, <<<<"c", "o", "m", "m", "e", "n", "t">>>> >>

\* The revision fields the model's headers carry, each with the number it
\* spells (None for the absent field).
RevTexts ==
    { [text |-> <<"2", "9">>, val |-> 29], [text |-> <<"3", "0">>, val |-> 30],
      [text |-> <<"3", "1">>, val |-> 31], [text |-> <<"3", "2">>, val |-> 32],
      [text |-> <<"3", "3">>, val |-> 33],
      [text |-> <<"3", "2", " ", "/", " ", "P", "S", "S", "3", "0">>, val |-> 32],
      [text |-> <<>>, val |-> None] }

\* The data sections of the model's whole files, in the layout of revision r:
\* nb buses, then a load at bus 2 when ld, a generator at bus 1 and a branch
\* from bus 1 to bus 2.
Body(nb, ld, fs, layout) ==
    SubSeq(<<BusRow(T1, NameA, layout), BusRow(T2, NameB, layout)>>, 1, nb)
    \o <<Terminator(fs)>>
    \o (IF ld THEN <<LoadRow(T2, T1, T1, layout)>> ELSE <<>>)
    \o <<Terminator(fs)>>
    \o <<GenRow(T1, T1)>> \o <<Terminator(fs)>>
    \o <<BranchRow(T1, T2, layout)>> \o <<Terminator(fs)>>

Files(fs) ==
    {Header(ic, rt.text) \o Body(nb, ld, fs, Layout(rt.val)) :
        ic \in {T0, T1, T2}, rt \in RevTexts, nb \in {0, 2}, ld \in BOOLEAN}

-----------------------------------------------------------------------------
(* psse2case, from its call to its exit.                                   *)

NoCase == [kind |-> "none"]

\* What psse2case has not yet computed.
Blank ==
    /\ cursor = 0 /\ fd = "None" /\ sep = "None" /\ rev = None
    /\ baseMVA = None /\ bus = <<>> /\ busmap = <<>> /\ gen = <<>>
    /\ branch = <<>> /\ err = "none" /\ ppc = NoCase /\ calls = <<>>
    /\ log = <<>>

Init ==
    /\ pc = "psse2case"
    /\ casefile \in {"dict", "path", "stream"}
    /\ openable \in BOOLEAN
    /\ casefile # "path" => openable
    /\ version \in {None} \cup SUPPORTED_VERSIONS \cup {33}
    /\ fileSep \in {",", " "}
    /\ delimiter \in {"None", fileSep}
    /\ stream \in (IF casefile = "dict" \/ ~ openable THEN {<<>>}
                   ELSE Files(fileSep))
    /\ Blank

\* An exception leaves _parse_file and psse2case: nothing is returned, and
\* the fd.close() that follows the call of _parse_file is not reached.
Raise(e) ==
    /\ err' = e
    /\ pc' = "exit"
    /\ UNCHANGED <<fd, ppc>>

\* casefile is a dict: it is returned as it is.
PassThrough ==
    /\ pc = "psse2case" /\ casefile = "dict"
    /\ ppc' = [kind |-> "dict"]
    /\ pc' = "exit"
    /\ UNCHANGED <<casefile, openable, version, delimiter, stream, cursor,
                   fileSep, fd, sep, rev, baseMVA, bus, busmap, gen, branch,
                   err, calls, log>>

\* casefile is a path: open it.  "file is not None" holds whatever open did
\* (file is the built-in type), so the finally clause calls _parse_file
\* with fd, which is None when open raised.
OpenFile ==
    /\ pc = "psse2case" /\ casefile = "path"
    /\ IF openable
       THEN fd' = "open" /\ log' = log
       ELSE fd' = "None" /\ log' = Append(log, <<"error", "Error opening">>)
    /\ pc' = "_parse_file"
    /\ UNCHANGED <<casefile, openable, version, delimiter, stream, cursor,
                   fileSep, sep, rev, baseMVA, bus, busmap, gen, branch, err,
                   ppc, calls>>

\* casefile is a stream: it is handed to _parse_file.
UseStream ==
    /\ pc = "psse2case" /\ casefile = "stream"
    /\ pc' = "_parse_file"
    /\ UNCHANGED <<casefile, openable, version, delimiter, stream, cursor,
                   fileSep, fd, sep, rev, baseMVA, bus, busmap, gen, branch,
                   err, ppc, calls, log>>

\* _parse_file's fd is None.
FdIsNone == casefile = "path" /\ fd = "None"

\* _parse_file up to the creation of the csv reader: sep, rev, fd.seek(0).
\* Each of _delimiter, _version and fd.seek needs fd to be a file.
Sniff ==
    /\ pc = "_parse_file"
    /\ LET s == IF delimiter = "None" THEN _delimiter(fileSep) ELSE delimiter
           v == IF version = None THEN _version(stream)
                ELSE [err |-> "none", version |-> version]
       IN  IF FdIsNone
           THEN Raise("AttributeError") /\ UNCHANGED <<sep, rev, cursor>>
           ELSE IF v.err # "none"
           THEN Raise(v.err) /\ sep' = s /\ UNCHANGED <<rev, cursor>>
           ELSE /\ sep' = s /\ rev' = v.version /\ cursor' = 0
                /\ pc' = "_parse_header"
                /\ UNCHANGED <<fd, err, ppc>>
    /\ UNCHANGED <<casefile, openable, version, delimiter, stream, fileSep,
                   baseMVA, bus, busmap, gen, branch, calls, log>>

ParseHeader ==
    /\ pc = "_parse_header"
    /\ LET r == _parse_header(stream, cursor) IN
       /\ cursor' = r.cursor
       /\ calls' = Append(calls, "header")
       /\ IF r.err # "none"
          THEN Raise(r.err) /\ UNCHANGED baseMVA
          ELSE /\ baseMVA' = r.baseMVA /\ pc' = "_parse_buses"
               /\ UNCHANGED <<fd, err, ppc>>
    /\ UNCHANGED <<casefile, openable, version, delimiter, stream, fileSep,
                   sep, rev, bus, busmap, gen, branch, log>>

ParseBuses ==
    /\ pc = "_parse_buses"
    /\ LET r == _parse_buses(stream, cursor, rev) IN
       /\ cursor' = r.cursor
       /\ calls' = Append(calls, "buses")
       /\ IF r.err # "none"
          THEN Raise(r.err) /\ UNCHANGED <<bus, busmap>>
          ELSE /\ bus' = r.bus /\ busmap' = r.busmap /\ pc' = "_parse_loads"
               /\ UNCHANGED <<fd, err, ppc>>
    /\ UNCHANGED <<casefile, openable, version, delimiter, stream, fileSep,
                   sep, rev, baseMVA, gen, branch, log>>

ParseLoads ==
    /\ pc = "_parse_loads"
    /\ LET r == _parse_loads(stream, cursor, bus, busmap, rev) IN
       /\ cursor' = r.cursor
       /\ calls' = Append(calls, "loads")
       /\ log' = log \o r.log
       /\ IF r.err # "none"
          THEN Raise(r.err) /\ UNCHANGED bus
          ELSE /\ bus' = r.bus
               /\ pc' = IF rev \in {31, 32} THEN "_parse_shunt"
                        ELSE "_parse_generators"
               /\ UNCHANGED <<fd, err, ppc>>
    /\ UNCHANGED <<casefile, openable, version, delimiter, stream, fileSep,
                   sep, rev, baseMVA, busmap, gen, branch>>

\* _parse_shunt(reader) of revisions 31 and 32: pass.
ParseShunt ==
    /\ pc = "_parse_shunt"
    /\ calls' = Append(calls, "shunt")
    /\ pc' = "_parse_generators"
    /\ UNCHANGED <<casefile, openable, version, delimiter, stream, cursor,
                   fileSep, fd, sep, rev, baseMVA, bus, busmap, gen, branch,
                   err, ppc, log>>

\* _parse_file calls _parse_generators(reader) with one argument; the
\* function takes (reader, busmap), so the call raises TypeError before the
\* function's body runs.  What follows it in _parse_file (the branches, the
\* transformers, the shunts of revisions 29 and 30, the case) and the
\* fd.close() and return of psse2case are never reached.
CallParseGenerators ==
    /\ pc = "_parse_generators"
    /\ Raise("TypeError")
    /\ UNCHANGED <<casefile, openable, version, delimiter, stream, cursor,
                   fileSep, sep, rev, baseMVA, bus, busmap, gen, branch,
                   calls, log>>

Next ==
    \/ PassThrough
    \/ OpenFile
    \/ UseStream
    \/ Sniff
    \/ ParseHeader
    \/ ParseBuses
    \/ ParseLoads
    \/ ParseShunt
    \/ CallParseGenerators

Spec == Init /\ [][Next]_vars

-----------------------------------------------------------------------------
(* The section readers called one by one on a reader of their own rows:    *)
(* _parse_buses first, then one of _parse_loads, _parse_generators and     *)
(* _parse_nontransformer_branches with the bus table and the bus index     *)
(* table it returned.                                                      *)

ReadersInit ==
    /\ pc = "readers"
    /\ casefile = "stream" /\ openable = TRUE /\ delimiter = "None"
    /\ version \in SUPPORTED_VERSIONS
    /\ fileSep \in {",", " "}
    /\ stream = <<>>
    /\ Blank

ReaderFrame == UNCHANGED <<casefile, openable, version, delimiter, fileSep,
                           fd, sep, rev, baseMVA, ppc>>

CallBuses ==
    /\ pc = "readers"
    /\ \E rows \in SeqsUpTo(BusRows(Layout(version)), MaxBus) :
         LET file == rows \o <<Terminator(fileSep)>>
         IN  \E r \in {_parse_buses(file, 0, version)} :
             /\ stream' = file
             /\ cursor' = r.cursor /\ err' = r.err
             /\ bus' = r.bus /\ busmap' = r.busmap
    /\ pc' = "buses read"
    /\ calls' = Append(calls, "buses")
    /\ ReaderFrame /\ UNCHANGED <<gen, branch, log>>

CallLoads ==
    /\ pc = "buses read"
    /\ \E rows \in SeqsUpTo(LoadRows(Layout(version)), MaxLoad) :
         LET file == stream \o rows \o <<Terminator(fileSep)>>
         IN  \E r \in {_parse_loads(file, cursor, bus, busmap, version)} :
             /\ stream' = file
             /\ cursor' = r.cursor /\ err' = r.err
             /\ bus' = r.bus /\ log' = log \o r.log
    /\ pc' = "loads read"
    /\ calls' = Append(calls, "loads")
    /\ ReaderFrame /\ UNCHANGED <<busmap, gen, branch>>

CallGenerators ==
    /\ pc = "buses read"
    /\ \E rows \in SeqsUpTo(GenRows, MaxGen) :
         LET file == stream \o rows \o <<Terminator(fileSep)>>
         IN  \E r \in {_parse_generators(file, cursor, busmap)} :
             /\ stream' = file
             /\ cursor' = r.cursor /\ err' = r.err
             /\ gen' = r.gen /\ log' = log \o r.log
    /\ pc' = "generators read"
    /\ calls' = Append(calls, "generators")
    /\ ReaderFrame /\ UNCHANGED <<bus, busmap, branch>>

CallBranches ==
    /\ pc = "buses read"
    /\ \E rows \in SeqsUpTo(BranchRows(Layout(version)), MaxBranch) :
         LET file == stream \o rows \o <<Terminator(fileSep)>>
         IN  \E r \in {_parse_nontransformer_branches(file, cursor, bus, busmap)} :
             /\ stream' = file
             /\ cursor' = r.cursor /\ err' = r.err
             /\ branch' = r.branch /\ log' = log \o r.log
    /\ pc' = "branches read"
    /\ calls' = Append(calls, "branches")
    /\ ReaderFrame /\ UNCHANGED <<bus, busmap, gen>>

ReadersNext ==
    \/ CallBuses
    \/ CallLoads
    \/ CallGenerators
    \/ CallBranches

SpecReaders == ReadersInit /\ [][ReadersNext]_vars

-----------------------------------------------------------------------------
(* Properties of psse2case (checked under Spec).                           *)

\* The number the revision field of the file's first row spells (None when
\* the row has no such field).
HeaderRev ==
    LET h0 == stream[1]
        t  == IF Len(h0) < 3 THEN <<>> ELSE h0[3]
    IN  (CHOOSE rt \in RevTexts : rt.text = t).val

\* A file is being parsed: psse2case was given a stream or a path it opened.
Parsing == casefile # "dict" /\ stream # <<>>

ValidIC == stream[1][1] \in {T0, T1}

\* The order of the section readers for revision r.
ExpectedCalls(r) ==
    <<"header", "buses", "loads">>
    \o (IF r \in {31, 32} THEN <<"shunt">> ELSE <<>>)
    \o <<"generators", "branches", "transformers">>
    \o (IF r \in {29, 30} THEN <<"shunt">> ELSE <<>>)

\* C1: a well-formed file of a supported revision r is read by the section
\* readers once each, in the order header, buses, loads, (shunt for 31, 32),
\* generators, branches, transformers, (shunt for 29, 30), no call fails,
\* and a Case with baseMVA, bus, gen and branch is returned.
C1_ReadersRunInOrderAndCaseReturned ==
    (pc = "exit" /\ Parsing /\ ValidIC /\ HeaderRev \in SUPPORTED_VERSIONS
       /\ version \in {None, HeaderRev})
    => (err = "none" /\ ppc.kind = "Case" /\ calls = ExpectedCalls(HeaderRev))

\* C3: when the first field of the header is neither "0" nor "1" the parse
\* ends with the assertion's error once the header reader has read exactly
\* three rows; no other section reader runs and nothing is returned.
C3_InvalidHeaderFails ==
    (Parsing /\ ~ ValidIC)
    => /\ ppc = NoCase
       /\ pc \in {"psse2case", "_parse_file", "_parse_header", "exit"}
       /\ calls = (IF pc = "exit" THEN <<"header">> ELSE <<>>)
       /\ pc = "exit" => (err = "AssertionError" /\ cursor = 3)
       /\ pc # "exit" => (err = "none" /\ ENABLED Next)

C3_Witness ==
    /\ Parsing /\ stream[1][1] = T2
    /\ pc = "exit" /\ err = "AssertionError" /\ cursor = 3

\* C7: when the path cannot be opened psse2case logs the error and returns
\* None; no exception leaves it and no section reader runs.
C7_OpenFailureReturnsNone ==
    (pc = "exit" /\ casefile = "path" /\ ~ openable)
    => /\ err = "none"
       /\ ppc = [kind |-> "None"]
       /\ calls = <<>>
       /\ log = << <<"error", "Error opening">> >>

\* C8: a file psse2case opened is closed when psse2case exits, whether the
\* parse succeeded or a section reader raised.
C8_OpenedFileClosedAtExit ==
    (pc = "exit" /\ casefile = "path" /\ openable) => fd = "closed"

\* C9 as stated: the revision that governs the section readers is always
\* one of 29, 30, 31, 32, whether it was sniffed or supplied.
C9_RevisionAlwaysSupported ==
    calls # <<>> => rev \in SUPPORTED_VERSIONS

\* C9 as amended: a revision sniffed from the header is the header's own
\* when that is one of 29..32 and the default 30 otherwise (also when the
\* field is absent), the sniffer does not fail and the header reader runs
\* next; a revision supplied by the caller governs the readers as given.
C9_SniffedRevisionSupported ==
    (Parsing /\ pc \notin {"psse2case", "_parse_file"})
    => /\ IF pc = "_parse_header" THEN calls = <<>> /\ err = "none"
          ELSE calls # <<>> /\ calls[1] = "header"
       /\ rev = IF version # None THEN version
                ELSE IF HeaderRev \in SUPPORTED_VERSIONS THEN HeaderRev
                ELSE DEFAULT_VERSION
       /\ version = None => rev \in SUPPORTED_VERSIONS

C9_Witness ==
    /\ Parsing /\ version = None /\ HeaderRev = 33
    /\ rev = DEFAULT_VERSION /\ calls = <<"header", "buses", "loads">>

-----------------------------------------------------------------------------
(* Properties of the section readers (checked under SpecReaders).          *)

\* The index of the row that ended the bus section.
BusEnd == CHOOSE k \in 1..Len(stream) :
              IsTerminator(stream[k]) /\ \A j \in 1..(k - 1) : ~ IsTerminator(stream[j])

\* The data rows of the bus section and of the section read after it.
BusSection == SubSeq(stream, 1, BusEnd - 1)
NextSection == SubSeq(stream, BusEnd + 1, Len(stream) - 1)

\* What the model's id and name fields spell.
IdValue(t) == IF t = T1 THEN 1 ELSE IF t = T2 THEN 2 ELSE 3
Bare(t) ==
    IF t = NameA THEN <<"A">> ELSE IF t = NameB THEN <<"B">>
    ELSE IF t = Name2 THEN <<"2">> ELSE t

\* The keys row k of the bus section registers.
KeysOf(k) == {BusSection[k][1], Bare(BusSection[k][2])}
AllKeys == UNION {KeysOf(k) : k \in 1..Len(BusSection)}

\* The last bus row that registers key.
LastWith(key) ==
    CHOOSE k \in 1..Len(BusSection) :
        key \in KeysOf(k) /\ \A j \in (k + 1)..Len(BusSection) : key \notin KeysOf(j)

BusRowsInOrder ==
    /\ err = "none" /\ cursor = Len(BusSection) + 1
    /\ Len(bus) = Len(BusSection)
    /\ \A k \in 1..Len(bus) : bus[k][1] = IdValue(BusSection[k][1])

\* C4 as stated: N bus rows give N bus records in input order and an index
\* table of exactly 2N entries in which the id and the stripped name of
\* every bus map to the row index of that bus, also when keys repeat.
C4_IndexHasTwoEntriesPerBus ==
    pc = "buses read"
    => /\ BusRowsInOrder
       /\ Cardinality(DOMAIN busmap) = 2 * Len(BusSection)
       /\ \A k \in 1..Len(BusSection) : \A key \in KeysOf(k) :
              key \in DOMAIN busmap /\ busmap[key] = k - 1

\* C4 as amended: N bus rows give N bus records in input order and an index
\* table whose keys are the ids and stripped names of the rows, each mapped
\* to the row index of the last bus that has it as id or name; the table
\* has 2N entries, each bus's id and name mapping to its own row index,
\* exactly when the 2N keys are pairwise distinct.
C4_IndexMapsKeyToLastBus ==
    pc = "buses read"
    => /\ BusRowsInOrder
       /\ DOMAIN busmap = AllKeys
       /\ \A key \in AllKeys : busmap[key] = LastWith(key) - 1
       /\ (Cardinality(DOMAIN busmap) = 2 * Len(BusSection))
            <=> (Cardinality(AllKeys) = 2 * Len(BusSection))
       /\ Cardinality(AllKeys) = 2 * Len(BusSection)
            => \A k \in 1..Len(BusSection) : \A key \in KeysOf(k) :
                   busmap[key] = k - 1

C4_Witness ==
    /\ pc = "buses read" /\ Len(bus) = 2
    /\ BusSection[1][2] = NameA /\ BusSection[2][2] = NameA
    /\ Cardinality(DOMAIN busmap) = 3 /\ busmap[<<"A">>] = 1

Resolves(ref) == _busidx(ref, busmap) # None

\* C2: every branch row whose two ends resolve gives a record whose
\* from-bus is the row index of the bus its first field names and whose
\* to-bus is the row index of the bus its second field names.
C2_BranchEndsAreRowIndices ==
    pc = "branches read"
    => LET kept == SelectSeq(NextSection,
                             LAMBDA row : Resolves(row[1]) /\ Resolves(row[2]))
       IN  /\ Len(branch) = Len(kept)
           /\ \A k \in 1..Len(kept) :
                  /\ branch[k][1] = _busidx(kept[k][1], busmap)
                  /\ branch[k][2] = _busidx(kept[k][2], busmap)

\* A load row out of service: its status is empty or zero.
Falsy(status) == status = <<>> \/ status = T0

\* C5: load rows at an unknown bus or with a falsy status leave the bus
\* table as the bus reader returned it, and the load reader reads on to the
\* end of its section.
C5_SkippedLoadLeavesBusTable ==
    (pc = "loads read"
       /\ \A k \in 1..Len(NextSection) :
              ~ Resolves(NextSection[k][1]) \/ Falsy(NextSection[k][3]))
    => /\ bus = _parse_buses(stream, 0, version).bus
       /\ err = "none" /\ cursor = Len(stream)

\* The log holds a 'not scaled' warning for the load row.
WarnedNotScaled(row) ==
    \E k \in 1..Len(log) : log[k][2] = "not scaled" /\ log[k][3] = row[1]

\* C10: an in-service load row at a known bus is warned about as not scaled
\* exactly when the revision is 32 and its scale is neither 0 nor 1.
C10_NotScaledWarningOnlyForOtherScales ==
    pc = "loads read"
    => \A k \in 1..Len(NextSection) :
           LET row == NextSection[k] IN
           (row[3] = T1 /\ Resolves(row[1]))
           => (WarnedNotScaled(row)
                 <=> (version = 32 /\ row[13] \notin {T0, T1}))

\* A generator row in service: STAT is 1.
InService(row) == row[15] = T1

\* C6: the generator table holds, in input order, one record for each row
\* that is in service and whose bus resolves, none for any other row, and
\* the bus field of each record identifies the bus the row resolved to (by
\* its row index or by its number).
C6_GenRecordsNameTheirBus ==
    pc = "generators read"
    => LET kept == SelectSeq(NextSection,
                             LAMBDA row : InService(row) /\ Resolves(row[1]))
       IN  /\ Len(gen) = Len(kept)
           /\ \A k \in 1..Len(kept) :
                  LET idx == _busidx(kept[k][1], busmap) IN
                  gen[k][1] \in {idx, bus[idx + 1][1]}

====
